---- MODULE Spec2Model ----
(***************************************************************************)
(* Model of class Solution (challenge_2026_01_19_1768898874771.cpp):       *)
(*   std::vector<int> processData(std::vector<int>& data)                  *)
(*   bool             validateInput(std::vector<int>& data)                *)
(* A caller owns the vector `data`, may validate it, calls processData on  *)
(* it, and may then call again with another vector (possibly the vector    *)
(* just returned).  processData is modelled statement by statement: the    *)
(* construction of the locals, each iteration of the range-for loop, and   *)
(* the final std::sort together with the return.  Vector objects carry an  *)
(* identity (a number, as an address would be) next to their contents, so  *)
(* that "the same object" and "an equal object" are different things.      *)
(***************************************************************************)
EXTENDS Integers, Sequences, FiniteSets

\* ---------------------------------------------------------------- bounds
MaxLen == 4       \* longest input vector the caller builds
MaxVal == 1       \* element values range over -1 .. MaxVal
MaxCalls == 2     \* number of processData calls in one behaviour

Values == (0 - 1) .. MaxVal

RECURSIVE SeqsUpTo(_)
SeqsUpTo(n) ==
    IF n = 0 THEN {<<>>}
    ELSE LET shorter == SeqsUpTo(n - 1)
         IN  shorter \cup {Append(s, v) : s \in {t \in shorter : Len(t) = n - 1}, v \in Values}

Inputs == SeqsUpTo(MaxLen)

\* ------------------------------------------------- the code, as operators

\* line 14: std::set<int> seen;  a new empty set whatever the storage held
FreshSeen == {}

\* line 15: std::vector<int> result;  a new empty vector
StaleResult(old) == old
FreshResult(old) == <<>>

\* line 16: the range-for loop ends when the iterator reaches data.end()
AtEndEarly(i, d) == i >= Len(d)
AtEnd(i, d) == i > Len(d)

\* line 17: seen.find(item) == seen.end()
NotSeenAlways(item, s) == TRUE
NotSeen(item, s) == item \notin s

\* line 19: result.push_back(item)
PushFront(r, item) == <<item>> \o r
PushBack(r, item) == Append(r, item)

\* lines 17-20: the loop body on the locals st = [seen, result]
LoopBodyNoInsert(item, st) ==
    IF NotSeen(item, st.seen)
    THEN [seen |-> st.seen, result |-> PushBack(st.result, item)]
    ELSE st

LoopBody(item, st) ==
    IF NotSeen(item, st.seen)
    THEN [seen |-> st.seen \cup {item}, result |-> PushBack(st.result, item)]
    ELSE st

\* line 22: std::sort(result.begin(), result.end()) orders by operator<
RECURSIVE InsertSorted(_, _)
InsertSorted(x, s) ==
    IF s = <<>> THEN <<x>>
    ELSE IF x < Head(s) THEN <<x>> \o s
    ELSE <<Head(s)>> \o InsertSorted(x, Tail(s))

RECURSIVE SortAscending(_)
SortAscending(s) ==
    IF s = <<>> THEN <<>> ELSE InsertSorted(Head(s), SortAscending(Tail(s)))

RECURSIVE Reverse(_)
Reverse(s) == IF s = <<>> THEN <<>> ELSE Append(Reverse(Tail(s)), Head(s))

SortDescending(s) == Reverse(SortAscending(s))
SortSkipped(s) == s
StdSort(s) == SortAscending(s)

\* lines 16-21: the whole loop, from iterator position i
RECURSIVE RunLoop(_, _, _)
RunLoop(d, i, st) ==
    IF AtEnd(i, d) THEN st ELSE RunLoop(d, i + 1, LoopBody(d[i], st))

\* lines 13-24: processData as a function of its argument
processData(d) ==
    StdSort(RunLoop(d, 1, [seen |-> FreshSeen, result |-> FreshResult(<<>>)]).result)

\* lines 26-28: return !data.empty()
validateInputNegationDropped(d) == Len(d) = 0
validateInput(d) == ~(Len(d) = 0)

\* ------------------------------------------------------------------ state
VARIABLES
    data,       \* the caller's vector, passed by reference
    arg0,       \* contents of data when the current call was entered
    pc,         \* "idle" | "loop" | "done"
    it,         \* position of the range-for iterator, 1 .. Len(data)+1
    seen,       \* local std::set<int> seen
    result,     \* local std::vector<int> result
    ret,        \* vector returned by the last completed call
    validated,  \* validateInput has returned for the current data
    valid,      \* its return value
    calls,      \* processData calls entered so far
    hasLast,    \* an earlier call has completed
    lastArg,    \* argument of the previous completed call
    lastRet,    \* result of the previous completed call
    dataId,     \* identity of the vector object `data` refers to
    resultId,   \* identity of the local vector object `result`
    retId,      \* identity of the returned vector object, 0 when none
    nextId,     \* identity the next constructed vector object gets
    preIds      \* identities of the vector objects that existed at call entry

ids == <<dataId, resultId, retId, nextId, preIds>>

vars == <<data, arg0, pc, it, seen, result, ret, validated, valid,
          calls, hasLast, lastArg, lastRet, dataId, resultId, retId, nextId, preIds>>

Init ==
    /\ data \in Inputs
    /\ arg0 = data
    /\ pc = "idle"
    /\ it = 1
    /\ seen = {}
    /\ result = <<>>
    /\ ret = <<>>
    /\ validated = FALSE
    /\ valid = FALSE
    /\ calls = 0
    /\ hasLast = FALSE
    /\ lastArg = <<>>
    /\ lastRet = <<>>
    /\ dataId = 1
    /\ resultId = 0
    /\ retId = 0
    /\ nextId = 2
    /\ preIds = {1}

\* lines 13-16: entry of processData, locals constructed, iterator at begin()
\* the locals made static or members: their contents survive the return
CallProcessDataKeepLocals ==
    /\ pc = "idle"
    /\ pc' = "loop"
    /\ arg0' = data
    /\ seen' = seen
    /\ result' = result
    /\ preIds' = 1 .. (nextId - 1)
    /\ resultId' = nextId
    /\ nextId' = nextId + 1
    /\ it' = 1
    /\ calls' = calls + 1
    /\ UNCHANGED <<data, ret, validated, valid, hasLast, lastArg, lastRet, dataId, retId>>

CallProcessData ==
    /\ pc = "idle"
    /\ pc' = "loop"
    /\ arg0' = data
    /\ seen' = FreshSeen
    /\ result' = FreshResult(result)
    /\ preIds' = 1 .. (nextId - 1)
    /\ resultId' = nextId
    /\ nextId' = nextId + 1
    /\ it' = 1
    /\ calls' = calls + 1
    /\ UNCHANGED <<data, ret, validated, valid, hasLast, lastArg, lastRet, dataId, retId>>

\* lines 16-21: one iteration of the loop
LoopStepNoAdvance ==
    /\ pc = "loop"
    /\ ~AtEnd(it, data)
    /\ LET st == LoopBody(data[it], [seen |-> seen, result |-> result])
       IN  /\ seen' = st.seen
           /\ result' = st.result
    /\ it' = it
    /\ UNCHANGED <<data, arg0, pc, ret, validated, valid, calls, hasLast, lastArg, lastRet>>
    /\ UNCHANGED ids

LoopStep ==
    /\ pc = "loop"
    /\ ~AtEnd(it, data)
    /\ LET st == LoopBody(data[it], [seen |-> seen, result |-> result])
       IN  /\ seen' = st.seen
           /\ result' = st.result
    /\ it' = it + 1
    /\ UNCHANGED <<data, arg0, pc, ret, validated, valid, calls, hasLast, lastArg, lastRet>>
    /\ UNCHANGED ids

\* lines 22-23: loop finished, sort the accumulator in place and return it;
\* the returned object is the local `result` (moved or elided, never `data`)

\* the sort applied to the input instead of the accumulator
SortReturnInPlace ==
    /\ pc = "loop"
    /\ AtEnd(it, data)
    /\ data' = StdSort(data)
    /\ ret' = result
    /\ retId' = resultId
    /\ pc' = "done"
    /\ UNCHANGED <<arg0, it, seen, result, validated, valid, calls, hasLast, lastArg, lastRet>>
    /\ UNCHANGED <<dataId, resultId, nextId, preIds>>

SortReturn ==
    /\ pc = "loop"
    /\ AtEnd(it, data)
    /\ result' = StdSort(result)
    /\ ret' = result'
    /\ retId' = resultId
    /\ pc' = "done"
    /\ UNCHANGED <<data, arg0, it, seen, validated, valid, calls, hasLast, lastArg, lastRet>>
    /\ UNCHANGED <<dataId, resultId, nextId, preIds>>

\* lines 26-28: validateInput on the caller's vector
ValidateInput ==
    /\ pc \in {"idle", "done"}
    /\ ~validated
    /\ validated' = TRUE
    /\ valid' = validateInput(data)
    /\ UNCHANGED <<data, arg0, pc, it, seen, result, ret, calls, hasLast, lastArg, lastRet>>
    /\ UNCHANGED ids

\* the caller keeps the returned vector and prepares the next argument: it
\* refills the vector it passed before, or passes the returned object itself
NewInput(s) ==
    /\ pc = "done"
    /\ calls < MaxCalls
    /\ lastArg' = arg0
    /\ lastRet' = ret
    /\ hasLast' = TRUE
    /\ data' = s
    /\ pc' = "idle"
    /\ ret' = <<>>
    /\ validated' = FALSE
    /\ valid' = FALSE
    /\ dataId' \in {dataId} \cup (IF s = ret THEN {retId} ELSE {})
    /\ retId' = 0
    /\ UNCHANGED <<arg0, it, seen, result, calls, resultId, nextId, preIds>>

Next ==
    \/ CallProcessData
    \/ LoopStep
    \/ SortReturn
    \/ ValidateInput
    \/ \E s \in Inputs : NewInput(s)

Spec == Init /\ [][Next]_vars

\* a single call, which runs to completion: the code is synchronous, nothing
\* suspends the loop or the sort
CallNext ==
    \/ CallProcessData
    \/ LoopStep
    \/ SortReturn
    \/ ValidateInput

FairSpec == Init /\ [][CallNext]_vars /\ WF_vars(LoopStep) /\ WF_vars(SortReturn)

\* ----------------------------------------------------------- properties
Range(s) == {s[i] : i \in DOMAIN s}

Done == pc = "done"

Unsorted(s) == \E i \in 1 .. Len(s) - 1 : s[i] > s[i + 1]

\* C1: when processData has returned, the set of values of the returned
\* vector equals the set of distinct values of the argument: every value of
\* the argument is in the output and the output holds no other value.
C1_SameValueSet ==
    Done => /\ \A i \in DOMAIN arg0 : \E j \in DOMAIN ret : ret[j] = arg0[i]
            /\ \A j \in DOMAIN ret : \E i \in DOMAIN arg0 : arg0[i] = ret[j]

C1_Witness ==
    /\ Done
    /\ Len(arg0) >= 3
    /\ Cardinality(Range(arg0)) = 2
    /\ Range(ret) = Range(arg0)

\* C2: the returned vector is strictly increasing: every element is smaller
\* than its right neighbour.
C2_StrictlyAscending ==
    Done => \A i \in 1 .. Len(ret) - 1 : ret[i] < ret[i + 1]

C2_Witness ==
    /\ Done
    /\ Unsorted(arg0)
    /\ Len(ret) >= 3
    /\ ret[1] < ret[2]

\* C3: the returned vector has no duplicate: each distinct value of the
\* argument occurs in it exactly once, so its length is the number of
\* distinct values of the argument.
C3_NoDuplicates ==
    Done => /\ \A i, j \in DOMAIN ret : ret[i] = ret[j] => i = j
            /\ \A v \in Range(arg0) : Cardinality({j \in DOMAIN ret : ret[j] = v}) = 1
            /\ Len(ret) = Cardinality(Range(arg0))

C3_Witness ==
    /\ Done
    /\ Len(arg0) >= 4
    /\ Cardinality(Range(arg0)) = 1
    /\ Len(ret) = 1

\* C4: idempotence: a call whose argument is the vector returned by the
\* previous call returns that same vector, element for element.
C4_Idempotent ==
    (Done /\ hasLast /\ arg0 = lastRet) => ret = lastRet

C4_Witness ==
    /\ Done
    /\ hasLast
    /\ arg0 = lastRet
    /\ Len(lastRet) >= 2
    /\ lastArg # lastRet
    /\ ret = lastRet

\* C5: validateInput returns true exactly when the vector has at least one
\* element, whatever the elements are.
C5_ValidIffNonEmpty ==
    validated => (valid <=> Len(data) >= 1)

C5_Witness ==
    /\ validated
    /\ valid
    /\ Len(data) >= 2
    /\ hasLast
    /\ lastArg = <<>>

\* C6: neither operation has a side effect.  (a) No step of processData or
\* of validateInput changes the caller's vector or makes `data` refer to
\* another object, so the vector holds its entry contents during and after
\* the call.  (b) The returned vector is an object constructed during the
\* call: it is none of the objects that existed at entry, in particular not
\* the input object, also when the input is itself a returned vector.
\* (c) Nothing survives from one call to the next: every call starts with
\* an empty seen and an empty, newly constructed result, and whatever call
\* preceded it, it returns what a very first call on the same argument
\* returns.
C6_NoSideEffects ==
    /\ [](pc \in {"loop", "done"} => data = arg0)
    /\ [][~(pc = "done" /\ pc' = "idle") => (data' = data /\ dataId' = dataId)]_vars
    /\ [](Done => (retId # dataId /\ retId # 0 /\ retId \notin preIds /\ dataId \in preIds))
    /\ [][(pc = "idle" /\ pc' = "loop") =>
            (seen' = {} /\ result' = <<>> /\ resultId' \notin 1 .. (nextId - 1))]_vars
    /\ [](Done => ret = processData(arg0))

C6_Witness ==
    /\ Done
    /\ validated
    /\ hasLast
    /\ Len(lastArg) >= 2
    /\ Range(lastArg) \cap Range(arg0) = {}
    /\ Unsorted(arg0)
    /\ Cardinality(Range(arg0)) < Len(arg0)
    /\ data = arg0
    /\ ret # data
    /\ retId # dataId
    /\ ret = processData(arg0)

\* C7: processData is total: the iterator stays within 1 .. Len(data)+1,
\* every call that entered the loop returns, and the empty vector yields the
\* empty vector.
C7_Total ==
    /\ [](pc = "loop" => it \in 1 .. Len(data) + 1)
    /\ (pc = "loop") ~> (pc = "done")
    /\ []((Done /\ arg0 = <<>>) => ret = <<>>)

C7_Witness ==
    /\ Done
    /\ Len(arg0) >= 4
    /\ it = Len(arg0) + 1
    /\ Len(ret) >= 2

\* The alternative algorithm: insert every element into an ordered set, then
\* read the set back in ascending order.
RECURSIVE InsertAll(_, _)
InsertAll(d, set) ==
    IF d = <<>> THEN set ELSE InsertAll(Tail(d), set \cup {Head(d)})

RECURSIVE ReadAscending(_)
ReadAscending(set) ==
    IF set = {} THEN <<>>
    ELSE LET m == CHOOSE x \in set : \A y \in set : x <= y
         IN  <<m>> \o ReadAscending(set \ {m})

OrderedSetAlternative(d) == ReadAscending(InsertAll(d, {}))

\* C8: the vector returned by the seen-set / accumulator / sort algorithm is
\* the one the ordered-set alternative produces for the same argument.
C8_EqualsOrderedSet ==
    Done => ret = OrderedSetAlternative(arg0)

C8_Witness ==
    /\ Done
    /\ Len(arg0) >= 4
    /\ Unsorted(arg0)
    /\ Len(ret) = 3
    /\ ret = OrderedSetAlternative(arg0)

FirstIndex(d, v) == CHOOSE i \in DOMAIN d : d[i] = v /\ \A j \in 1 .. i - 1 : d[j] # v

\* C9: loop invariant, before the sort: with k = it - 1 elements processed,
\* seen is the set of values among them, result holds exactly the values of
\* seen, each once, in order of first occurrence in the input, and the
\* length of result is the size of seen and at most k.
C9_LoopInvariant ==
    pc = "loop" =>
        LET k == it - 1
        IN  /\ k \in 0 .. Len(data)
            /\ seen = {data[j] : j \in 1 .. k}
            /\ Range(result) = seen
            /\ \A a, b \in DOMAIN result : result[a] = result[b] => a = b
            /\ \A a, b \in DOMAIN result :
                   a < b => FirstIndex(data, result[a]) < FirstIndex(data, result[b])
            /\ Len(result) = Cardinality(seen)
            /\ Len(result) <= k

C9_Witness ==
    /\ pc = "loop"
    /\ it = Len(data) + 1
    /\ Len(data) >= 4
    /\ Len(result) = 3
    /\ Unsorted(result)

\* C10: the result depends only on the set of values of the argument: two
\* calls whose arguments have the same set of values, in whatever order and
\* multiplicity, return the same vector.
C10_DependsOnValueSetOnly ==
    (Done /\ hasLast /\ Range(arg0) = Range(lastArg)) => ret = lastRet

C10_Witness ==
    /\ Done
    /\ hasLast
    /\ Range(arg0) = Range(lastArg)
    /\ Len(arg0) # Len(lastArg)
    /\ Unsorted(arg0)
    /\ ~Unsorted(lastArg)
    /\ Len(ret) >= 2
    /\ ret = lastRet

====
